---- MODULE Spec2Model ----
(***************************************************************************)
(* Model of io/dataway/endpoint.go: newEndpoint, the write path and the    *)
(* pulls of one endPoint.                                                  *)
(*                                                                         *)
(* Strings are sequences of tokens, so that concatenation (fmt.Sprintf)    *)
(* and strings.Contains are computed and not assumed:                      *)
(*   "https://gw.example/v1/write/metric?token=T1" is                      *)
(*   <<"https://", "gw.example", "/v1/write/", "metric", "?", "token=T1">> *)
(* Every goroutine that calls into the endpoint is a process p; its        *)
(* position is pc[p].  log[p] records, in program order, what the current  *)
(* writePoints call of p did to its collaborators (HTTP transport, metric  *)
(* vectors, dial-testing callback, durable queue) for the body it is at or *)
(* has just finished; hist[p] keeps of the bodies before it which events   *)
(* there were, in order, and one bit of each.                              *)
(***************************************************************************)
EXTENDS Integers, Sequences, FiniteSets, TLC

\* ------------------------------------------------------------------ bounds
MaxCalls == 1      \* writePoints calls per goroutine
MaxPts   == 2      \* points per writer
MaxTime  == 1      \* time.Now().Unix() is drawn from 1..MaxTime

\* ------------------------------------------------- categories (datakit.X)
Metric                 == <<"/v1/write/", "metric">>
MetricDeprecated       == <<"/v1/write/", "metrics">>
Object                 == <<"/v1/write/", "object">>
CustomObject           == <<"/v1/write/", "custom_object">>
Logging                == <<"/v1/write/", "logging">>
Tracing                == <<"/v1/write/", "tracing">>
DynamicDatawayCategory == <<"dynamicDatawayCategory">>
LogFilter              == <<"/v1/logfilter/pull">>
DatakitPull            == <<"/v1/datakit/pull">>

\* strings.Contains(s, tok), for a substring that is one token
Contains(s, tok) == \E k \in 1..Len(s) : s[k] = tok

\* point.CatURL(category): the stable category of a category URL; a string
\* that is no category URL (the dynamic category among them) is "unknown"
CatURL(c) ==
  CASE c = Metric           -> [code |-> 3, name |-> "metric"]
    [] c = MetricDeprecated -> [code |-> 2, name |-> "metrics"]
    [] c = Object           -> [code |-> 6, name |-> "object"]
    [] c = CustomObject     -> [code |-> 7, name |-> "custom_object"]
    [] c = Logging          -> [code |-> 8, name |-> "logging"]
    [] c = Tracing          -> [code |-> 9, name |-> "tracing"]
    [] OTHER                -> [code |-> 0, name |-> "unknown"]

\* point.DynamicDWCategory.String()
DynamicDWCategoryName == "dynamic_dw"

\* http.StatusText(code)
StatusText(code) ==
  CASE code = 200 -> "OK"
    [] code = 302 -> "Found"
    [] code = 403 -> "Forbidden"
    [] code = 404 -> "Not Found"
    [] code = 408 -> "Request Timeout"
    [] code = 500 -> "Internal Server Error"
    [] OTHER      -> ""

\* url.ParseRequestURI(s) succeeds on an absolute URI or an absolute path
SchemeTokens == {"http://", "https://", "ftp://"}
PathTokens   == {"/", "/cb", "/v1/write/", "/v1/logfilter/pull", "/v1/datakit/pull"}
ParseRequestURIOk(s) == Len(s) > 0 /\ s[1] \in SchemeTokens \cup PathTokens

\* ------------------------------------------------------------ newEndpoint
BaseScheme == "https://"
BaseHost   == "gw.example"
BaseQuery  == <<"token=T1">>
Apis       == {Metric, MetricDeprecated, Object, CustomObject, Logging,
               LogFilter, DatakitPull}

\* a URL string is <<scheme, host>>, then path tokens, then "?" and the
\* parameters of the query, one token each ("&" is left out); a string that
\* starts with a path token is an absolute path and has no scheme, no host
UrlScheme(s) == IF s[1] \in SchemeTokens THEN s[1] ELSE ""
UrlHost(s)   == IF s[1] \in SchemeTokens /\ Len(s) >= 2 THEN s[2] ELSE ""

\* u.RawQuery: what follows the first "?"
RawQuery(s) ==
  IF Contains(s, "?")
    THEN LET k == CHOOSE n \in 1..Len(s) :
                    s[n] = "?" /\ \A m \in 1..(n - 1) : s[m] # "?"
         IN SubSeq(s, k + 1, Len(s))
    ELSE << >>

\* the parameters the model knows: key, decoded value, and the parameter as
\* url.Values.Encode writes it (url.QueryEscape leaves "~" as it is, so
\* "z=%7E" comes back as "z=~"); KeyRank is the byte order of the keys
ParamKey(tok) ==
  CASE tok = "token=T1" -> "token"
    [] tok = "a=1"      -> "a"
    [] tok = "z=%7E"    -> "z"
    [] OTHER            -> ""
ParamValue(tok) ==
  CASE tok = "token=T1" -> "T1"
    [] tok = "a=1"      -> "1"
    [] tok = "z=%7E"    -> "~"
    [] OTHER            -> ""
EncodeParam(key, val) ==
  CASE key = "token" /\ val = "T1" -> "token=T1"
    [] key = "a" /\ val = "1"      -> "a=1"
    [] key = "z" /\ val = "~"      -> "z=~"
    [] OTHER                       -> ""
KeyRank(key) ==
  CASE key = "a" -> 1 [] key = "token" -> 2 [] key = "z" -> 3 [] OTHER -> 0

\* u.Query(): url.ParseQuery, whose error is dropped with the parameters it
\* could not parse; the pairs <<key, value>> in the order of the query
Query(raw) ==
  LET ok == SelectSeq(raw, LAMBDA tok : ParamKey(tok) # "") IN
  [n \in 1..Len(ok) |-> <<ParamKey(ok[n]), ParamValue(ok[n])>>]

\* url.Values.Get(key): the first value of the key, or ""
Get(vals, key) ==
  IF \E n \in 1..Len(vals) : vals[n][1] = key
    THEN vals[CHOOSE n \in 1..Len(vals) :
                /\ vals[n][1] = key
                /\ \A m \in 1..(n - 1) : vals[m][1] # key][2]
    ELSE ""

\* url.Values.Encode(): the parameters sorted by key, the values of one key
\* in the order they came, every key and value escaped
RECURSIVE Encode(_)
Encode(vals) ==
  IF vals = << >> THEN << >>
  ELSE LET k == CHOOSE n \in 1..Len(vals) :
                  \A m \in 1..Len(vals) :
                    \/ KeyRank(vals[n][1]) < KeyRank(vals[m][1])
                    \/ KeyRank(vals[n][1]) = KeyRank(vals[m][1]) /\ n <= m
           rest == [m \in 1..(Len(vals) - 1) |->
                      IF m < k THEN vals[m] ELSE vals[m + 1]]
       IN <<EncodeParam(vals[k][1], vals[k][2])>> \o Encode(rest)

\* lines 108-121, for the query q as Encode wrote it
newEndpointCategoryURL(scheme, host, q, apis) ==
  [api \in apis |->
     IF q # << >> THEN <<scheme, host>> \o api \o <<"?">> \o q
                  ELSE <<scheme, host>> \o api]

\* ep.httpCli of an endpoint whose setupHTTP has not run
NoClient == [DialContext |-> "nil", ProxyURL |-> << >>]

\* a setupHTTP that refuses a proxy URL it cannot parse
setupHTTP_strict(proxy, dnsErr) ==
  IF proxy # << >> /\ ~ParseRequestURIOk(proxy)
    THEN [err |-> TRUE, httpCli |-> NoClient]
    ELSE [err |-> FALSE,
          httpCli |-> [DialContext |-> IF dnsErr THEN "default" ELSE "dnscache",
                       ProxyURL |-> proxy]]

\* lines 135-160: the client is built whatever GetDNSCacheDialContext and
\* the parse of the proxy URL return
setupHTTP(proxy, dnsErr) ==
  [err |-> FALSE,
   httpCli |-> [DialContext |-> IF dnsErr THEN "default" ELSE "dnscache",
                ProxyURL |-> IF proxy # << >> /\ ParseRequestURIOk(proxy)
                               THEN proxy ELSE << >>]]

\* what there is when newEndpoint has returned no endpoint
NoEndpoint ==
  [err |-> "none", token |-> "", host |-> "", scheme |-> "",
   categoryURL |-> << >>, httpCli |-> NoClient]

\* lines 87-133: newEndpoint(urlstr, withAPIs(apis), withProxy(proxy)), in an
\* environment where GetDNSCacheDialContext fails or not
newEndpoint(c) ==
  IF ~ParseRequestURIOk(c.urlstr)
    THEN [NoEndpoint EXCEPT !.err = "ParseRequestURI"]
    ELSE LET vals == Query(RawQuery(c.urlstr))
             http == setupHTTP(c.proxy, c.dnsErr)
         IN
         IF UrlScheme(c.urlstr) \notin {"http://", "https://"}
           THEN [NoEndpoint EXCEPT !.err = "not supported scheme"]
           ELSE IF http.err
                  THEN [NoEndpoint EXCEPT !.err = "setupHTTP"]
                  ELSE [err    |-> "nil",
                        token  |-> Get(vals, "token"),
                        host   |-> UrlHost(c.urlstr),
                        scheme |-> UrlScheme(c.urlstr),
                        categoryURL |->
                          newEndpointCategoryURL(
                            UrlScheme(c.urlstr), UrlHost(c.urlstr), Encode(vals),
                            {c.apis[n] : n \in 1..Len(c.apis)}),
                        httpCli |-> http.httpCli]

\* ------------------------------------------------------------- buildBody
\* the size limit of a body, in the unit of the point sizes below
MaxKodoBody == 3
LineProtocol == "lineproto"

RECURSIVE SumSeq(_)
SumSeq(s) == IF s = << >> THEN 0 ELSE Head(s) + SumSeq(Tail(s))

\* a point is its encoded size; size 0 stands for a point that cannot be
\* encoded.  Bodies are filled greedily up to max; a point larger than max
\* is a body of its own.
RECURSIVE Segment(_, _, _, _)
Segment(pts, max, cur, acc) ==
  IF pts = << >>
    THEN IF cur = << >> THEN acc ELSE Append(acc, cur)
    ELSE IF cur # << >> /\ SumSeq(cur) + Head(pts) > max
           THEN Segment(pts, max, << >>, Append(acc, cur))
           ELSE Segment(Tail(pts), max, Append(cur, Head(pts)), acc)

buildBody(pts, max) ==
  IF \E k \in 1..Len(pts) : pts[k] = 0
    THEN [err |-> TRUE, bodies |-> << >>]
    ELSE LET segs == Segment(pts, max, << >>, << >>) IN
         [err |-> FALSE,
          bodies |-> [k \in 1..Len(segs) |->
                        [buf     |-> segs[k],
                         npts    |-> Len(segs[k]),
                         payload |-> LineProtocol,
                         gzon    |-> SumSeq(segs[k]) > 1]]]

\* ------------------------------------------------------------- the inputs
RECURSIVE SeqsUpTo(_, _)
SeqsUpTo(S, n) ==
  IF n = 0 THEN {<< >>}
  ELSE LET prev == SeqsUpTo(S, n - 1) IN
       prev \cup {Append(s, x) : s \in {t \in prev : Len(t) = n - 1}, x \in S}

PointSizes == {0, 1, 2}
PtsInputs  == SeqsUpTo(PointSizes, MaxPts)

DynWriteURL == <<"https://", "dt.example", "/v1/write/", "logging", "?", "token=T2">>
DynURLs == { << >>, DynWriteURL, <<"https://", "dt.example", "/cb">>, <<"::bad">> }

WriteCategories ==
  {Metric, MetricDeprecated, Object, CustomObject, Logging, Tracing,
   DynamicDatawayCategory}

\* every dynamic URL is tried where it is looked at (the category is not
\* routed); a routed category comes without one, metric and logging also
\* with DynWriteURL
Writers ==
  {wr \in [category : WriteCategories, pts : PtsInputs, gzip : {FALSE},
           cacheAll : BOOLEAN, fc : {"nil", "fc"}, dynamicURL : DynURLs,
           isSinker : {FALSE}] :
     wr.category \in Apis =>
       \/ wr.dynamicURL = << >>
       \/ wr.dynamicURL = DynWriteURL /\ wr.category \in {Metric, Logging}}

\* what one HTTP round trip (ep.sendReq, then ioutil.ReadAll) can give back:
\* an error of sendReq (a *url.Error that is a timeout, the "giving up
\* after" of the retrying client, or another error), or a response with its
\* status code, whether its body carries the marker "beyondDataUsage", and
\* whether reading the body failed
Outcomes ==
  [kind : {"err"}, e : {"timeout", "givingup", "other"},
   code : {0}, marker : {FALSE}, readErr : {FALSE}]
  \cup
  {o \in [kind : {"resp"}, e : {"none"}, code : {200, 302, 403, 404, 500},
          marker : BOOLEAN, readErr : BOOLEAN] :
      /\ o.marker  => o.code \in {403, 404}
      /\ o.code = 404 => o.marker
      /\ o.readErr => o.code = 200 \/ (o.code = 403 /\ o.marker)}

Times == 1..MaxTime

\* the configuration the endpoint of the write path is built from
BaseApis == <<Metric, MetricDeprecated, Object, CustomObject, Logging,
              LogFilter, DatakitPull>>
BaseCfg ==
  [urlstr |-> <<BaseScheme, BaseHost, "?">> \o BaseQuery, apis |-> BaseApis,
   proxy |-> << >>, dnsErr |-> FALSE]

\* the configurations newEndpoint is tried with: base URLs of every scheme
\* with every query of up to two parameters ("b=%zz" is one url.ParseQuery
\* cannot parse), an absolute path, strings that are no URL; lists of
\* categories, one with a category twice; no proxy, a proxy, a malformed one
Params  == {"token=T1", "a=1", "z=%7E", "b=%zz"}
Queries == SeqsUpTo(Params, 2)
BaseURLs ==
  {<<sch, BaseHost>> \o (IF q = << >> THEN << >> ELSE <<"?">> \o q) :
     sch \in SchemeTokens, q \in Queries}
  \cup {<<"/", "?", "token=T1">>, <<"::bad">>, << >>}
ApiLists ==
  {<< >>, <<Metric>>, <<Metric, Logging>>, <<Logging, Metric, Logging>>, BaseApis}
Proxies == {<< >>, <<"http://", "proxy.example">>, <<"::bad">>}
Configs ==
  [urlstr : BaseURLs, apis : ApiLists, proxy : Proxies, dnsErr : BOOLEAN]

\* datakitPull(args)
PullArgs == {"filters=1"}

VARIABLES
  cfg,           \* the arguments and the environment of newEndpoint
  epErr,         \* the error of newEndpoint, "none" before it is called
  token,         \* ep.token
  host,          \* ep.host
  scheme,        \* ep.scheme
  httpCli,       \* ep.httpCli
  categoryURL,   \* ep.categoryURL
  BeyondUsage,   \* metrics.BeyondUsage
  pc,            \* pc[p]: "idle", "build", "body" (in the loop), "clear",
                 \* "getLogFilter", "datakitPull" (the response is there)
  w,             \* w[p]: the writer of the current call
  bodies,        \* bodies[p]: the result of buildBody
  i,             \* i[p]: index of the body the loop is at
  pend,          \* pend[p]: the round trip writePointData is classifying
  log,           \* log[p]: the events of the body the call is at
  hist,          \* hist[p]: the events of the bodies before, in short
  ret,           \* ret[p]: "none" while running, else "nil" or "err"
  calls          \* calls[p]: number of writePoints calls p has made

\* what is fixed once newEndpoint was called, but for ep.categoryURL
epFixed == <<cfg, epErr, token, host, scheme, httpCli>>

vars ==
  <<epFixed, categoryURL, BeyondUsage, pc, w, bodies, i, pend, log, hist, ret,
    calls>>

NoWriter == [category |-> << >>, pts |-> << >>, gzip |-> FALSE,
             cacheAll |-> FALSE, fc |-> "nil", dynamicURL |-> << >>,
             isSinker |-> FALSE]
NoPend == [requrl |-> << >>, dyn |-> FALSE, loaded |-> 0,
           o |-> [kind |-> "err", e |-> "other", code |-> 0,
                  marker |-> FALSE, readErr |-> FALSE]]

\* the fields of the endpoint are those of e
EndpointIs(e) ==
  /\ epErr = e.err
  /\ token = e.token
  /\ host = e.host
  /\ scheme = e.scheme
  /\ httpCli = e.httpCli
  /\ categoryURL = e.categoryURL

\* no goroutine has called into the endpoint
Callers(Procs) ==
  /\ BeyondUsage = 0
  /\ pc     = [p \in Procs |-> "idle"]
  /\ w      = [p \in Procs |-> NoWriter]
  /\ bodies = [p \in Procs |-> << >>]
  /\ i      = [p \in Procs |-> 1]
  /\ pend   = [p \in Procs |-> NoPend]
  /\ log    = [p \in Procs |-> << >>]
  /\ hist   = [p \in Procs |-> << >>]
  /\ ret    = [p \in Procs |-> "none"]
  /\ calls  = [p \in Procs |-> 0]

\* the endpoint newEndpoint built from BaseCfg, and the goroutines Procs
InitP(Procs) ==
  /\ cfg = BaseCfg
  /\ EndpointIs(newEndpoint(BaseCfg))
  /\ Callers(Procs)

Init == InitP({1})

\* ---------------------------------------------------------- writePointData
\* a writePointData that looks at the dynamic URL first
ResolveURL_dynFirst(wr) ==
  IF wr.dynamicURL # << >>
    THEN IF ParseRequestURIOk(wr.dynamicURL)
           THEN [err |-> "nil", requrl |-> wr.dynamicURL, dyn |-> TRUE]
           ELSE [err |-> "ParseRequestURI", requrl |-> << >>, dyn |-> FALSE]
    ELSE IF wr.category \in DOMAIN categoryURL
           THEN [err |-> "nil", requrl |-> categoryURL[wr.category], dyn |-> FALSE]
           ELSE [err |-> "invalid url", requrl |-> << >>, dyn |-> FALSE]

\* lines 244-263: the routing table first, then the dynamic URL
ResolveURL(wr) ==
  IF wr.category \in DOMAIN categoryURL
    THEN [err |-> "nil", requrl |-> categoryURL[wr.category], dyn |-> FALSE]
    ELSE IF wr.dynamicURL # << >>
           THEN IF ParseRequestURIOk(wr.dynamicURL)
                  THEN [err |-> "nil", requrl |-> wr.dynamicURL, dyn |-> TRUE]
                  ELSE [err |-> "ParseRequestURI", requrl |-> << >>, dyn |-> FALSE]
           ELSE [err |-> "invalid url", requrl |-> << >>, dyn |-> FALSE]

\* httpCodeStr when the deferred metrics function runs
HttpCodeStr(o) ==
  IF o.kind = "err"
    THEN CASE o.e = "timeout"  -> StatusText(408)
           [] o.e = "givingup" -> StatusText(500)
           [] OTHER            -> "unknown"
    ELSE IF o.readErr THEN "unknown" ELSE StatusText(o.code)

\* httpCode when the deferred updateDTFailInfo runs: declared at line 241 and
\* assigned nowhere
HttpCode(o) == 0

\* a status switch that takes a redirect for a success
Classify_3xx(o) ==
  IF o.kind = "err" THEN "sendReq"
  ELSE IF o.readErr THEN "ReadAll"
  ELSE CASE o.code \div 100 \in {2, 3} -> "nil"
         [] o.code \div 100 = 4       -> "errWritePoints4XX"
         [] OTHER                     -> "dataway internal error"

\* the error writePointData returns for a round trip
Classify(o) ==
  IF o.kind = "err" THEN "sendReq"
  ELSE IF o.readErr THEN "ReadAll"
  ELSE CASE o.code \div 100 = 2 -> "nil"
         [] o.code \div 100 = 4 -> "errWritePoints4XX"
         [] OTHER               -> "dataway internal error"

\* a 2xx branch that clears the flag whatever URL was written to
ClearWanted_anyURL(requrl, flag) == flag > 0

\* line 336: the 2xx branch goes on to atomic.StoreInt64(&BeyondUsage, 0)
ClearWanted(requrl, flag) == Contains(requrl, "/v1/write/") /\ flag > 0

\* a 4xx branch that takes every 403 for quota exhaustion
SetBeyondUsage_any403(flag, o, now) ==
  IF o.code = 403 THEN flag + now ELSE flag

\* a 4xx branch that swaps the flag: sets it when clear, clears it when set
SetBeyondUsage_swap(flag, o, now) ==
  IF o.code = 403 /\ o.marker THEN (IF flag = 0 THEN now ELSE 0) ELSE flag

\* lines 351-359: the 4xx branch, atomic.AddInt64(&BeyondUsage, now)
SetBeyondUsage(flag, o, now) ==
  IF o.code = 403 /\ o.marker THEN flag + now ELSE flag

\* a clear that takes away from the flag what it has loaded
StoreBeyondUsage_sub(cur, loaded) == cur - loaded

\* line 338: atomic.StoreInt64(&metrics.BeyondUsage, 0)
StoreBeyondUsage(cur, loaded) == 0

\* what the classification of the response to body k means for the quota
\* flag: a set at time v = now (403 with the marker), a clear, v = 0 (2xx
\* to a URL that contains /v1/write/), or nothing
Quota(k, requrl, o, now) ==
  CASE Classify(o) = "errWritePoints4XX" /\ SetBeyondUsage(0, o, now) # 0 ->
         <<[ev |-> "quota", idx |-> k, v |-> now]>>
    [] Classify(o) = "nil" /\ Contains(requrl, "/v1/write/") ->
         <<[ev |-> "quota", idx |-> k, v |-> 0]>>
    [] OTHER -> << >>

\* the deferred functions, in the order they run: metrics (265-282), then
\* updateDTFailInfo (255-258) when a dynamic URL is used
Deferred(wr, b, k, r, o) ==
  <<[ev |-> "metric", idx |-> k,
     cat |-> IF wr.category = DynamicDatawayCategory
               THEN DynamicDWCategoryName ELSE CatURL(wr.category).name,
     status |-> HttpCodeStr(o), bytes |-> SumSeq(b.buf), npts |-> b.npts,
     sink |-> wr.isSinker]>>
  \o (IF r.dyn
        THEN <<[ev |-> "dt", idx |-> k, url |-> r.requrl,
                ok |-> (HttpCode(o) \div 100 = 2)]>>
        ELSE << >>)

\* lines 284-298: the POST handed to sendReq, with what came back
Request(wr, b, k, r, o) ==
  [ev |-> "req", idx |-> k, url |-> r.requrl, buf |-> b.buf,
   gzip |-> wr.gzip, o |-> o]

\* writePointData has returned err for body k
Returned(k, err) == [ev |-> "wpd", idx |-> k, err |-> err]

\* ------------------------------------------------------------------ doCache
\* a doCache that stores the number of points where the bytes belong
doCache_npts(wr, b) ==
  [Category |-> CatURL(wr.category).code, PayloadType |-> b.payload,
   Payload |-> <<b.npts>>]

doCache(wr, b) ==
  [Category |-> CatURL(wr.category).code, PayloadType |-> b.payload,
   Payload |-> b.buf]

\* a switch that misses the custom_object case
NoCacheCategories_short ==
  {Metric, MetricDeprecated, Object, DynamicDatawayCategory}

\* lines 191-195
NoCacheCategories ==
  {Metric, MetricDeprecated, Object, CustomObject, DynamicDatawayCategory}

\* a writeBody without the return of lines 174-176
ShouldCache_4xx(wr, err) ==
  /\ err # "nil"
  /\ wr.fc # "nil"
  /\ (wr.cacheAll \/ wr.category \notin NoCacheCategories)

\* a writeBody that goes to the category switch whatever cacheAll says
ShouldCache_noCacheAll(wr, err) ==
  /\ err # "nil"
  /\ err # "errWritePoints4XX"
  /\ wr.fc # "nil"
  /\ wr.category \notin NoCacheCategories

\* a writeBody without the return of lines 178-180
ShouldCache_noFc(wr, err) ==
  /\ err # "nil"
  /\ err # "errWritePoints4XX"
  /\ (wr.cacheAll \/ wr.category \notin NoCacheCategories)

\* writeBody lines 166-205: what follows the return of writePointData
ShouldCache(wr, err) ==
  /\ err # "nil"
  /\ err # "errWritePoints4XX"
  /\ wr.fc # "nil"
  /\ (wr.cacheAll \/ wr.category \notin NoCacheCategories)

\* a writeBody that calls Put again when Put failed
CacheOrDrop_retry(wr, b, k, err, putErr) ==
  IF ShouldCache(wr, err)
    THEN <<[ev |-> "put", idx |-> k, rec |-> doCache(wr, b), err |-> putErr]>>
         \o (IF putErr
               THEN <<[ev |-> "put", idx |-> k, rec |-> doCache(wr, b),
                       err |-> FALSE]>>
               ELSE << >>)
    ELSE << >>

CacheOrDrop(wr, b, k, err, putErr) ==
  IF ShouldCache(wr, err)
    THEN <<[ev |-> "put", idx |-> k, rec |-> doCache(wr, b), err |-> putErr]>>
    ELSE << >>

\* a loop that stops at the first body that failed
NextIndex_break(k, n, err) == IF err # "nil" THEN n + 1 ELSE k + 1

\* a loop that goes back to the body before when a body failed
NextIndex_back(k, n, err) == IF err # "nil" /\ k > 1 THEN k - 1 ELSE k + 1

\* writePoints lines 219-221: the loop goes on to the next body
NextIndex(k, n, err) == k + 1

\* a writePoints that hands the error of a failed body to its caller
writePointsResult_propagate(buildErr, errs) ==
  IF buildErr \/ \E n \in 1..Len(errs) : errs[n].x THEN "err" ELSE "nil"

\* writePoints lines 214-223: what the call returns
writePointsResult(buildErr, errs) == IF buildErr THEN "err" ELSE "nil"

\* an event in short: its kind, its body, whether it is a request answered
\* by a 403 with the marker, a writePointData that returned an error, or a
\* Put that returned an error, and what it did to the quota flag
Digest(lg) ==
  [n \in 1..Len(lg) |->
     [ev |-> lg[n].ev, idx |-> lg[n].idx,
      v |-> IF lg[n].ev = "quota" THEN lg[n].v ELSE 0,
      x |-> CASE lg[n].ev = "req" -> (lg[n].o.kind = "resp" /\ ~lg[n].o.readErr
                                       /\ lg[n].o.code = 403 /\ lg[n].o.marker)
              [] lg[n].ev = "wpd" -> lg[n].err # "nil"
              [] lg[n].ev = "put" -> lg[n].err
              [] OTHER            -> FALSE]]

\* the events of the current call of p, in short
Trace(p) == hist[p] \o Digest(log[p])

BodyErrs(tr) == SelectSeq(tr, LAMBDA e : e.ev = "wpd")

\* ------------------------------------------------------------------ actions
\* writePoints is called with a writer of W
Call(p, W) ==
  /\ pc[p] = "idle"
  /\ epErr = "nil"
  /\ calls[p] < MaxCalls
  /\ \E wr \in W : w' = [w EXCEPT ![p] = wr]
  /\ pc' = [pc EXCEPT ![p] = "build"]
  /\ ret' = [ret EXCEPT ![p] = "none"]
  /\ calls' = [calls EXCEPT ![p] = @ + 1]
  /\ UNCHANGED <<epFixed, categoryURL, BeyondUsage, bodies, i, pend, log, hist>>

WritePoints(p) == Call(p, Writers)

\* lines 214-217: buildBody fails and the call returns its error, or the
\* loop starts
BuildBody(p) ==
  /\ pc[p] = "build"
  /\ LET bb == buildBody(w[p].pts, MaxKodoBody) IN
     IF bb.err
       THEN /\ ret' = [ret EXCEPT ![p] = writePointsResult(TRUE, << >>)]
            /\ pc' = [pc EXCEPT ![p] = "idle"]
            /\ w' = [w EXCEPT ![p] = NoWriter]
            /\ UNCHANGED bodies
       ELSE /\ pc' = [pc EXCEPT ![p] = "body"]
            /\ bodies' = [bodies EXCEPT ![p] = bb.bodies]
            /\ UNCHANGED <<w, ret>>
  /\ UNCHANGED <<epFixed, categoryURL, BeyondUsage, i, pend, log, hist, calls>>

\* ep.writeBody(w, body) for the body the loop is at
WriteBody(p) ==
  /\ pc[p] = "body"
  /\ i[p] <= Len(bodies[p])
  /\ LET k  == i[p]
         b  == bodies[p][k]
         wr == [w[p] EXCEPT !.gzip = b.gzon]
         r  == ResolveURL(wr)
     IN
     /\ w' = [w EXCEPT ![p] = wr]
     /\ hist' = [hist EXCEPT ![p] = Trace(p)]
     /\ IF r.err # "nil"
          THEN \E putErr \in (IF ShouldCache(wr, r.err) THEN BOOLEAN ELSE {FALSE}) :
                 /\ log' = [log EXCEPT ![p] = <<Returned(k, r.err)>>
                                     \o CacheOrDrop(wr, b, k, r.err, putErr)]
                 /\ i' = [i EXCEPT ![p] = NextIndex(k, Len(bodies[p]), r.err)]
                 /\ UNCHANGED <<BeyondUsage, pc, pend>>
          ELSE \E o \in Outcomes :
               \E now \in (IF SetBeyondUsage(0, o, 1) # 0 THEN Times ELSE {1}),
                  putErr \in (IF ShouldCache(wr, Classify(o)) THEN BOOLEAN ELSE {FALSE}) :
                 LET err == Classify(o) IN
                 IF err = "nil" /\ ClearWanted(r.requrl, BeyondUsage)
                   THEN /\ pc' = [pc EXCEPT ![p] = "clear"]
                        /\ pend' = [pend EXCEPT ![p] =
                                      [requrl |-> r.requrl, dyn |-> r.dyn,
                                       loaded |-> BeyondUsage, o |-> o]]
                        /\ log' = [log EXCEPT ![p] = <<Request(wr, b, k, r, o)>>]
                        /\ UNCHANGED <<BeyondUsage, i>>
                   ELSE /\ BeyondUsage' =
                             IF err = "errWritePoints4XX"
                               THEN SetBeyondUsage(BeyondUsage, o, now)
                               ELSE BeyondUsage
                        /\ log' = [log EXCEPT ![p] =
                                      <<Request(wr, b, k, r, o)>>
                                      \o Quota(k, r.requrl, o, now)
                                      \o Deferred(wr, b, k, r, o)
                                      \o <<Returned(k, err)>>
                                      \o CacheOrDrop(wr, b, k, err, putErr)]
                        /\ i' = [i EXCEPT ![p] = NextIndex(k, Len(bodies[p]), err)]
                        /\ UNCHANGED <<pc, pend>>
  /\ UNCHANGED <<epFixed, categoryURL, bodies, ret, calls>>

\* line 338: atomic.StoreInt64(&metrics.BeyondUsage, 0), then the return of
\* writePointData and of writeBody
ClearBeyondUsage(p) ==
  /\ pc[p] = "clear"
  /\ LET k == i[p]
         b == bodies[p][k]
         r == [err |-> "nil", requrl |-> pend[p].requrl, dyn |-> pend[p].dyn]
     IN
     /\ BeyondUsage' = StoreBeyondUsage(BeyondUsage, pend[p].loaded)
     /\ log' = [log EXCEPT ![p] = @ \o Quota(k, r.requrl, pend[p].o, 1)
                                    \o Deferred(w[p], b, k, r, pend[p].o)
                                    \o <<Returned(k, "nil")>>]
     /\ i' = [i EXCEPT ![p] = NextIndex(k, Len(bodies[p]), "nil")]
  /\ pc' = [pc EXCEPT ![p] = "body"]
  /\ pend' = [pend EXCEPT ![p] = NoPend]
  /\ UNCHANGED <<epFixed, categoryURL, w, bodies, hist, ret, calls>>

\* line 223: the loop is over; the call returns and its writer, its bodies
\* and the record of what it did go out of scope
LoopDone(p) == pc[p] = "body" /\ i[p] > Len(bodies[p])

Return(p) ==
  /\ LoopDone(p)
  /\ ret' = [ret EXCEPT ![p] = writePointsResult(FALSE, BodyErrs(Trace(p)))]
  /\ pc' = [pc EXCEPT ![p] = "idle"]
  /\ w' = [w EXCEPT ![p] = NoWriter]
  /\ bodies' = [bodies EXCEPT ![p] = << >>]
  /\ i' = [i EXCEPT ![p] = 1]
  /\ log' = [log EXCEPT ![p] = << >>]
  /\ hist' = [hist EXCEPT ![p] = << >>]
  /\ UNCHANGED <<epFixed, categoryURL, BeyondUsage, pend, calls>>

\* lines 378-408 and 410-440: what a pull returns for its URL (empty when
\* the API is not routed) and its round trip
PullResult(requrl, o) ==
  IF requrl = << >> THEN "API missing"
  ELSE IF o.kind = "err" THEN "sendReq"
  ELSE IF o.readErr THEN "ReadAll"
  ELSE IF o.code # 200 THEN "status code" ELSE "nil"

\* a pull that keeps the URL it has requested in the routing table
AfterPull_keep(m, api, requrl) == [m EXCEPT ![api] = requrl]

\* lines 379, 411, 416: the table is read; the URL that is requested is a
\* local of the pull
AfterPull(m, api, requrl) == m

\* the GET of a pull: the URL of the routing table, sent when there is one
Pull(p, api, suffix, at) ==
  /\ pc[p] = "idle"
  /\ epErr = "nil"
  /\ IF api \in DOMAIN categoryURL
       THEN /\ \E o \in Outcomes :
                 pend' = [pend EXCEPT ![p] =
                            [requrl |-> categoryURL[api] \o suffix,
                             dyn |-> FALSE, loaded |-> 0, o |-> o]]
            /\ categoryURL' =
                 AfterPull(categoryURL, api, categoryURL[api] \o suffix)
       ELSE /\ pend' = [pend EXCEPT ![p] = NoPend]
            /\ UNCHANGED categoryURL
  /\ pc' = [pc EXCEPT ![p] = at]
  /\ ret' = [ret EXCEPT ![p] = "none"]
  /\ UNCHANGED <<epFixed, BeyondUsage, w, bodies, i, log, hist, calls>>

\* ep.getLogFilter()
GetLogFilter(p) == Pull(p, LogFilter, << >>, "getLogFilter")

\* ep.datakitPull(args): the URL is url + "&" + args
DatakitPullArgs(p) ==
  \E args \in PullArgs : Pull(p, DatakitPull, <<"&", args>>, "datakitPull")

\* the pull returns its body or its error
PullReturn(p) ==
  /\ pc[p] \in {"getLogFilter", "datakitPull"}
  /\ pc' = [pc EXCEPT ![p] = "idle"]
  /\ pend' = [pend EXCEPT ![p] = NoPend]
  /\ UNCHANGED <<epFixed, categoryURL, BeyondUsage, w, bodies, i, log, hist,
                 ret, calls>>

Next ==
  \E p \in DOMAIN pc :
    \/ WritePoints(p)
    \/ BuildBody(p)
    \/ WriteBody(p)
    \/ ClearBeyondUsage(p)
    \/ Return(p)
    \/ GetLogFilter(p)
    \/ DatakitPullArgs(p)
    \/ PullReturn(p)

Spec == Init /\ [][Next]_vars

\* ------------------------------------- two goroutines on one endpoint
\* the writers of the concurrent callers: logging, one body or two, no queue
ConcWriters ==
  {wr \in Writers :
     /\ wr.category = Logging /\ wr.dynamicURL = << >>
     /\ wr.pts \in {<<2>>, <<2, 2>>}
     /\ ~wr.cacheAll /\ wr.fc = "nil"}

WritePointsConc(p) == Call(p, ConcWriters)

InitConc == InitP({1, 2})

NextConc ==
  \E p \in DOMAIN pc :
    \/ WritePointsConc(p)
    \/ BuildBody(p)
    \/ WriteBody(p)
    \/ ClearBeyondUsage(p)
    \/ Return(p)
    \/ GetLogFilter(p)
    \/ DatakitPullArgs(p)
    \/ PullReturn(p)

SpecConc == InitConc /\ [][NextConc]_vars

\* ------------------------------------------------- newEndpoint on its own
\* newEndpoint(cfg.urlstr, withAPIs(cfg.apis), withProxy(cfg.proxy))
NewEndpoint ==
  /\ epErr = "none"
  /\ LET e == newEndpoint(cfg) IN
       /\ epErr' = e.err
       /\ token' = e.token
       /\ host' = e.host
       /\ scheme' = e.scheme
       /\ httpCli' = e.httpCli
       /\ categoryURL' = e.categoryURL
  /\ UNCHANGED <<cfg, BeyondUsage, pc, w, bodies, i, pend, log, hist, ret, calls>>

InitNew == cfg \in Configs /\ EndpointIs(NoEndpoint) /\ Callers({1})

NextNew == NewEndpoint

SpecNew == InitNew /\ [][NextNew]_vars

\* ------------------------------------------------------------ vocabulary
Ps == DOMAIN pc

\* the events of kind ev that p logged for body k, in full (the body the
\* call is at) and in short (every body of the call)
Events(p, ev, k) ==
  {n \in 1..Len(log[p]) : log[p][n].ev = ev /\ log[p][n].idx = k}

TraceCount(p, ev, k) ==
  Len(SelectSeq(Trace(p), LAMBDA e : e.ev = ev /\ e.idx = k))

\* the events the step adds to the log of p
NewEvents(p) ==
  IF pc[p] = "body" /\ pc'[p] # "idle" /\ log'[p] # log[p]
    THEN {log'[p][n] : n \in 1..Len(log'[p])}
    ELSE IF pc[p] = "clear" /\ pc'[p] = "body"
           THEN {log'[p][n] : n \in (Len(log[p]) + 1)..Len(log'[p])}
           ELSE {}

\* the step is the buildBody of a call of p / the return of a call whose
\* loop ran
BuildStep(p)  == pc[p] = "build" /\ pc'[p] # "build"
ReturnStep(p) == pc[p] = "body" /\ pc'[p] = "idle"

BuildFails(wr) == buildBody(wr.pts, MaxKodoBody).err

\* the round trip ended without a response that could be read
NetworkError(o) == o.kind = "err" \/ o.readErr
Status(o, class) == o.kind = "resp" /\ ~o.readErr /\ o.code \div 100 = class
Marker403(o) == Status(o, 4) /\ o.code = 403 /\ o.marker

TypeOK ==
  /\ BeyondUsage \in Nat
  /\ \A p \in Ps :
       /\ pc[p] \in {"idle", "build", "body", "clear", "getLogFilter",
                    "datakitPull"}
       /\ ret[p] \in {"none", "nil", "err"}
       /\ i[p] \in 1..(Len(bodies[p]) + 1)
       /\ calls[p] \in 0..MaxCalls

\* ------------------------------------------------------------------- C1
\* C1: a writePoints call whose loop ran returns nil whatever happened to
\* its bodies; a call returns a non-nil error exactly when buildBody fails,
\* and such a call sends no request, calls Put never and leaves the quota
\* flag as it was.
C1_ReturnStep ==
  \A p \in Ps :
    /\ ReturnStep(p) => ret'[p] = "nil"
    /\ BuildStep(p) =>
         /\ (ret'[p] = "err") = BuildFails(w[p])
         /\ ret'[p] = "err" =>
              /\ BeyondUsage' = BeyondUsage
              /\ Trace(p) = << >> /\ log'[p] = << >> /\ hist'[p] = << >>
              /\ pc'[p] = "idle"
    /\ ret'[p] = "err" /\ ret[p] # "err" => BuildStep(p)

C1_NilUnlessBuildFails ==
  /\ [](\A p \in Ps : ret[p] = "err" => pc[p] = "idle" /\ Trace(p) = << >>)
  /\ [][C1_ReturnStep]_vars

\* a call has returned the error of buildBody
C1_Witness == \E p \in Ps : ret[p] = "err" /\ calls[p] > 0 /\ pc[p] = "idle"

\* ------------------------------------------------------------------- C2
\* C2: while the loop of a writePoints call runs, writePointData has been
\* called exactly once for every body before the loop index and never for a
\* body at or after it, whatever errors the earlier bodies got; when the loop
\* is over every body has been attempted exactly once, and every body whose
\* URL resolves has been sent exactly once.
C2_EveryBodyOnce ==
  \A p \in Ps :
    pc[p] = "body" =>
      \A k \in 1..Len(bodies[p]) :
        /\ TraceCount(p, "wpd", k) = (IF k < i[p] THEN 1 ELSE 0)
        /\ TraceCount(p, "req", k) =
             (IF k < i[p] /\ ResolveURL(w[p]).err = "nil" THEN 1 ELSE 0)

\* the loop is over, the first body failed and the second was attempted
C2_Witness ==
  \E p \in Ps :
    /\ LoopDone(p)
    /\ Len(bodies[p]) >= 2
    /\ \E n \in 1..Len(hist[p]) :
         hist[p][n].ev = "wpd" /\ hist[p][n].idx = 1 /\ hist[p][n].x
    /\ TraceCount(p, "wpd", 2) = 1

\* ------------------------------------------------------------------- C3
\* C3: a body whose category is not in the routing table and that comes
\* without a dynamicURL is neither sent nor handed to Put, and the call it
\* belongs to returns a non-nil error.
RouteNotFound(p) ==
  \E n \in 1..Len(log[p]) : log[p][n].ev = "wpd" /\ log[p][n].err = "invalid url"

C3_RouteStep ==
  \A p \in Ps : ReturnStep(p) /\ RouteNotFound(p) => ret'[p] = "err"

C3_RouteNotFoundPropagated ==
  /\ [](\A p \in Ps : RouteNotFound(p) =>
         \A n \in 1..Len(log[p]) : log[p][n].ev \notin {"req", "put"})
  /\ [][C3_RouteStep]_vars

\* ------------------------------------------------------------------- C4
\* C4: a body whose request got a 4xx response has no Put call, whatever the
\* category, cacheAll and the queue are.
C4_No4xxPut ==
  \A p \in Ps : \A n \in 1..Len(log[p]) :
    log[p][n].ev = "req" /\ Status(log[p][n].o, 4) =>
      /\ Events(p, "put", log[p][n].idx) = {}
      /\ TraceCount(p, "put", log[p][n].idx) = 0

\* a 4xx response to a writer that caches everything into a queue it has
C4_Witness ==
  \E p \in Ps : \E n \in 1..Len(log[p]) :
    /\ log[p][n].ev = "req" /\ Status(log[p][n].o, 4)
    /\ Events(p, "wpd", log[p][n].idx) # {}
    /\ w[p].cacheAll /\ w[p].fc # "nil" /\ w[p].category = Logging

\* ------------------------------------------------------------------- C5
\* the body k of p was sent and its round trip ended in a 5xx response or
\* in a network error, and writeBody is through with it
Transient(p, k) ==
  /\ Events(p, "wpd", k) # {}
  /\ \E n \in Events(p, "req", k) :
       NetworkError(log[p][n].o) \/ Status(log[p][n].o, 5)

PutCount(p, k) == TraceCount(p, "put", k)

\* C5 as claimed: with cacheAll = false a 5xx or network-error outcome gives
\* zero Put calls for the five never-cached categories and exactly one Put
\* call for every other category.
C5_Original ==
  \A p \in Ps : \A k \in 1..Len(bodies[p]) :
    Transient(p, k) /\ ~w[p].cacheAll =>
      PutCount(p, k) =
        (IF w[p].category \in
              {Metric, MetricDeprecated, Object, CustomObject,
               DynamicDatawayCategory}
           THEN 0 ELSE 1)

\* C5 as amended: the same, for a writer that has a durable queue (w.fc is
\* not nil); a writer without one makes zero Put calls.
C5_DefaultPolicy ==
  \A p \in Ps : \A k \in 1..Len(bodies[p]) :
    Transient(p, k) /\ ~w[p].cacheAll =>
      PutCount(p, k) =
        (IF w[p].fc = "nil" \/ w[p].category \in
              {Metric, MetricDeprecated, Object, CustomObject,
               DynamicDatawayCategory}
           THEN 0 ELSE 1)

\* a logging body that failed is handed to Put once under the default policy
C5_Witness ==
  \E p \in Ps : \E k \in 1..Len(bodies[p]) :
    /\ Transient(p, k) /\ ~w[p].cacheAll /\ w[p].fc # "nil"
    /\ w[p].category = Logging
    /\ PutCount(p, k) = 1

\* ------------------------------------------------------------------- C6
\* C6 as claimed: with cacheAll = true a 5xx or network-error outcome gives
\* exactly one Put call, whatever the category.
C6_Original ==
  \A p \in Ps : \A k \in 1..Len(bodies[p]) :
    Transient(p, k) /\ w[p].cacheAll => PutCount(p, k) = 1

\* C6 as amended: the same, for a writer that has a durable queue; a writer
\* without one makes zero Put calls.
C6_CacheAll ==
  \A p \in Ps : \A k \in 1..Len(bodies[p]) :
    Transient(p, k) /\ w[p].cacheAll =>
      PutCount(p, k) = (IF w[p].fc = "nil" THEN 0 ELSE 1)

\* a metric body that got a 5xx is handed to Put under cacheAll
C6_Witness ==
  \E p \in Ps : \E k \in 1..Len(bodies[p]) :
    /\ Transient(p, k) /\ w[p].cacheAll /\ w[p].fc # "nil"
    /\ w[p].category = Metric
    /\ \E n \in Events(p, "req", k) : Status(log[p][n].o, 5)
    /\ PutCount(p, k) = 1

\* ------------------------------------------------------------------- C7
\* C7: the record of every Put call carries the category code of the
\* writer's category, the payload tag of the body and the buffer of the
\* body, and that buffer is what the request for this body carried.
C7_RecordMatchesBody ==
  \A p \in Ps : \A n \in 1..Len(log[p]) :
    log[p][n].ev = "put" =>
      LET k == log[p][n].idx
          rec == log[p][n].rec
      IN /\ rec.Category = CatURL(w[p].category).code
         /\ rec.PayloadType = bodies[p][k].payload
         /\ rec.Payload = bodies[p][k].buf
         /\ \A m \in Events(p, "req", k) : log[p][m].buf = rec.Payload

\* a logging body of two points was sent, got a 500 and was handed to Put
C7_Witness ==
  \E p \in Ps : \E n \in 1..Len(log[p]) :
    /\ log[p][n].ev = "put"
    /\ w[p].category = Logging /\ ~w[p].cacheAll
    /\ Len(log[p][n].rec.Payload) = 2
    /\ \E m \in Events(p, "req", log[p][n].idx) : Status(log[p][m].o, 5)

\* ------------------------------------------------------------------- C8
\* C8: a failing Put is neither retried nor propagated: no body has more
\* than one Put call, the bodies after one whose Put failed are attempted
\* all the same, and the call returns nil.
PutFailed(p, k) ==
  \E n \in 1..Len(Trace(p)) :
    Trace(p)[n].ev = "put" /\ Trace(p)[n].idx = k /\ Trace(p)[n].x

C8_ReturnStep ==
  \A p \in Ps :
    ReturnStep(p) /\ (\E k \in 1..Len(bodies[p]) : PutFailed(p, k))
      => ret'[p] = "nil"

C8_PutFailureAbsorbed ==
  /\ [](\A p \in Ps : \A k \in 1..Len(bodies[p]) :
         /\ PutCount(p, k) <= 1
         /\ PutFailed(p, k) /\ LoopDone(p) =>
              \A j \in 1..Len(bodies[p]) : TraceCount(p, "wpd", j) = 1)
  /\ [][C8_ReturnStep]_vars

\* Put failed for the first body and the second body was sent
C8_Witness ==
  \E p \in Ps :
    /\ LoopDone(p) /\ Len(bodies[p]) >= 2
    /\ PutFailed(p, 1)
    /\ Events(p, "req", 2) # {}

\* ------------------------------------------------------------------- C9
\* the step finishes the classification of a response of status class c
\* that p got for a URL that does (write = TRUE) or does not contain
\* /v1/write/
Classifies(p, class, write) ==
  \E e \in NewEvents(p) :
    /\ e.ev = "wpd"
    /\ \E n \in 1..Len(log'[p]) :
         /\ log'[p][n].ev = "req" /\ log'[p][n].idx = e.idx
         /\ Status(log'[p][n].o, class)
         /\ Contains(log'[p][n].url, "/v1/write/") = write

\* C9: the quota flag goes from nonzero to 0 only in a step that classifies
\* a 2xx response to a URL that contains /v1/write/, and every step that
\* classifies such a response leaves the flag at 0.
C9_ClearStep ==
  /\ BeyondUsage # 0 /\ BeyondUsage' = 0 =>
       \E p \in Ps : Classifies(p, 2, TRUE)
  /\ \A p \in Ps : Classifies(p, 2, TRUE) => BeyondUsage' = 0

C9_ClearedOnlyByWrite2xx == [][C9_ClearStep]_vars

\* within one call the flag was set by a marker 403 and a later 2xx
\* response to a write URL has cleared it
C9_Witness ==
  \E p \in Ps :
    /\ BeyondUsage = 0
    /\ \E n \in 1..Len(hist[p]) :
         hist[p][n].ev = "req" /\ hist[p][n].idx = 1 /\ hist[p][n].x
    /\ \E n \in Events(p, "req", 2) :
         Status(log[p][n].o, 2) /\ Contains(log[p][n].url, "/v1/write/")
    /\ Events(p, "wpd", 2) # {}

\* ------------------------------------------------------------------ C10
\* the step finishes the classification of a 403 response with the marker
MarkerStep(p) == \E e \in NewEvents(p) : e.ev = "req" /\ Marker403(e.o)

\* C10: every step that classifies a 403 response whose body carries the
\* marker leaves the quota flag nonzero, also when the flag was set before.
C10_MarkerStep == \A p \in Ps : MarkerStep(p) => BeyondUsage' # 0

C10_MarkerSetsFlag == [][C10_MarkerStep]_vars

\* a marker 403 for the first body and one for the second, the flag still set
C10_Witness ==
  \E p \in Ps :
    /\ BeyondUsage # 0
    /\ \E n \in 1..Len(hist[p]) :
         hist[p][n].ev = "req" /\ hist[p][n].idx = 1 /\ hist[p][n].x
    /\ \E n \in Events(p, "req", 2) : Marker403(log[p][n].o)

\* ------------------------------------------------------------------ C11
\* C11: a 403 response with the marker that is classified while the quota
\* flag is nonzero leaves the value of the flag as it is, so that the value
\* stays the time of the first such response since the last clear.
C11_SecondMarkerStep ==
  \A p \in Ps : MarkerStep(p) /\ BeyondUsage # 0 => BeyondUsage' = BeyondUsage

C11_FirstTimestampKept == [][C11_SecondMarkerStep]_vars

\* ------------------------------------------------------------------ C12
\* the step is the round trip of a pull of p / the return of a pull
PullStep(p) ==
  \/ pc[p] = "idle" /\ pc'[p] \in {"getLogFilter", "datakitPull"}
  \/ pc[p] \in {"getLogFilter", "datakitPull"} /\ pc'[p] = "idle"

\* the round trip is none of the two that write the flag
NoFlagOutcome(e) ==
  \/ NetworkError(e.o)
  \/ e.o.kind = "resp" /\ ~e.o.readErr /\ e.o.code \div 100 \notin {2, 4}
  \/ Status(e.o, 4) /\ ~Marker403(e.o)
  \/ Status(e.o, 2) /\ ~Contains(e.url, "/v1/write/")

\* C12: a step changes the quota flag only when it classifies a 403 with
\* the marker or a 2xx response to a URL that contains /v1/write/; a step
\* that classifies a network error, a 5xx, a 4xx that is no 403 with the
\* marker or a 2xx to another URL, a step that calls Put and every step of
\* getLogFilter and datakitPull leave the flag as it is.
C12_FrameStep ==
  /\ BeyondUsage' # BeyondUsage =>
       \E p \in Ps : MarkerStep(p) \/ Classifies(p, 2, TRUE)
  /\ \A p \in Ps :
       /\ PullStep(p) => BeyondUsage' = BeyondUsage
       /\ \A e \in NewEvents(p) :
            \/ e.ev = "put"
            \/ e.ev = "req" /\ NoFlagOutcome(e)
            => BeyondUsage' = BeyondUsage

C12_NoOtherTransition == [][C12_FrameStep]_vars

\* the flag is set and getLogFilter has got a 200: the flag is still set
C12_Witness ==
  \E p \in Ps :
    /\ BeyondUsage # 0
    /\ pc[p] = "getLogFilter"
    /\ Status(pend[p].o, 2)

\* ------------------------------------------------------------------ C13
\* the sets (v = the time) and clears (v = 0) of the current call of p, in
\* program order
QuotaSeq(p) ==
  LET q == SelectSeq(Trace(p), LAMBDA e : e.ev = "quota") IN
  [n \in 1..Len(q) |-> q[n].v]

\* a set or a clear applied to the flag f on its own
ApplyQuota(f, v) == IF v = 0 THEN 0 ELSE f + v

\* the values the flag f can have after the events of qs (one sequence per
\* goroutine) were applied one at a time, each goroutine's in its order
RECURSIVE Serial(_, _)
Serial(f, qs) ==
  LET left == {p \in DOMAIN qs : qs[p] # << >>} IN
  IF left = {} THEN {f}
  ELSE UNION {Serial(ApplyQuota(f, Head(qs[p])), [qs EXCEPT ![p] = Tail(@)]) :
                p \in left}

\* every goroutine is in its first writePoints call or has made none
FirstCalls ==
  \A p \in Ps :
    calls[p] = 0 \/ (calls[p] = 1 /\ pc[p] \in {"build", "body", "clear"})

\* C13 (step): a step that changes the quota flag is the set or the clear
\* of one goroutine, applied to the value the flag has in that step.
C13_AtomicStep ==
  BeyondUsage' # BeyondUsage =>
    \E p \in Ps : \E e \in NewEvents(p) :
      e.ev = "quota" /\ BeyondUsage' = ApplyQuota(BeyondUsage, e.v)

\* C13: with two goroutines in writePoints on one endpoint, in every
\* interleaving the quota flag has a value that the sets and clears made so
\* far give when they are applied one at a time in some order that keeps
\* the order of each goroutine; no set and no clear is lost.
C13_NoLostUpdate ==
  /\ [](FirstCalls => BeyondUsage \in Serial(0, [p \in Ps |-> QuotaSeq(p)]))
  /\ [][C13_AtomicStep]_vars

\* a goroutine is between the load and the store of its clear, and another
\* goroutine has added to the flag since the load
C13_Witness ==
  \E p \in Ps :
    /\ pc[p] = "clear"
    /\ BeyondUsage > pend[p].loaded
    /\ \E q \in Ps \ {p} : QuotaSeq(q) # << >>

\* ------------------------------------------------------------------ C14
\* C14: for every body that was sent to the dynamicURL of its writer and
\* that writePointData is through with, updateDTFailInfo was called exactly
\* once, with that URL, and with ok = TRUE exactly when the round trip gave
\* a 2xx response.
C14_HealthReported ==
  \A p \in Ps : \A n \in 1..Len(log[p]) :
    /\ log[p][n].ev = "req"
    /\ ResolveURL(w[p]).dyn
    /\ Events(p, "wpd", log[p][n].idx) # {}
    => /\ Cardinality(Events(p, "dt", log[p][n].idx)) = 1
       /\ \A m \in Events(p, "dt", log[p][n].idx) :
            /\ log[p][m].url = log[p][n].url
            /\ log[p][m].ok =
                 (log[p][n].o.kind = "resp" /\ log[p][n].o.code \div 100 = 2)

\* ------------------------------------------------------------------ C15
\* the categories newEndpoint was asked to route
Requested == {cfg.apis[n] : n \in 1..Len(cfg.apis)}

\* C15: after a successful newEndpoint the routing table has one entry for
\* each requested category and no other, and each entry is the scheme and
\* the host of the base URL, the category, "?" and the query of the base
\* URL as it was written there: the same parameters, in the same order, in
\* the same encoding.
C15_QueryVerbatim ==
  epErr = "nil" =>
    /\ DOMAIN categoryURL = Requested
    /\ \A api \in Requested :
         categoryURL[api] =
           <<UrlScheme(cfg.urlstr), UrlHost(cfg.urlstr)>> \o api
           \o (IF RawQuery(cfg.urlstr) = << >> THEN << >>
                ELSE <<"?">> \o RawQuery(cfg.urlstr))

\* ------------------------------------------------------------------ C16
\* C16: newEndpoint returns an error exactly when the base URL cannot be
\* parsed or its scheme is neither http nor https, and then it returns no
\* endpoint; a failing GetDNSCacheDialContext and a malformed proxy URL
\* leave the endpoint built, with the default dialer and without a proxy.
C16_FailsOnlyOnURL ==
  epErr # "none" =>
    /\ (epErr # "nil") =
         (IF ParseRequestURIOk(cfg.urlstr)
            THEN UrlScheme(cfg.urlstr) \notin {"http://", "https://"}
            ELSE TRUE)
    /\ epErr # "nil" =>
         /\ httpCli = NoClient /\ DOMAIN categoryURL = {}
         /\ token = "" /\ host = "" /\ scheme = ""
    /\ epErr = "nil" =>
         /\ httpCli # NoClient
         /\ cfg.dnsErr => httpCli.DialContext = "default"
         /\ ~ParseRequestURIOk(cfg.proxy) => httpCli.ProxyURL = << >>

\* an endpoint was built although the DNS cache dialer could not be set up
\* and the proxy URL is malformed
C16_Witness ==
  /\ epErr = "nil"
  /\ cfg.dnsErr
  /\ cfg.proxy = <<"::bad">>

\* ------------------------------------------------------------------ C17
\* C17: for every body that was sent and that writePointData is through
\* with, the byte counter and the point counter were added to exactly once,
\* with the bytes and the points of the body, under the label of the
\* writer's category and, when a response was received, under the status
\* text of that response.
C17_MetricsAttributed ==
  \A p \in Ps : \A n \in 1..Len(log[p]) :
    log[p][n].ev = "req" /\ Events(p, "wpd", log[p][n].idx) # {} =>
      LET k == log[p][n].idx IN
      /\ Cardinality(Events(p, "metric", k)) = 1
      /\ \A m \in Events(p, "metric", k) :
           /\ log[p][m].bytes = SumSeq(bodies[p][k].buf)
           /\ log[p][m].npts = bodies[p][k].npts
           /\ log[p][m].cat =
                (IF w[p].category = DynamicDatawayCategory
                   THEN DynamicDWCategoryName ELSE CatURL(w[p].category).name)
           /\ log[p][n].o.kind = "resp" =>
                log[p][m].status = StatusText(log[p][n].o.code)

\* ------------------------------------------------------------------ C18
\* C18: no step of writePoints, getLogFilter or datakitPull, of one
\* goroutine or of two on the same endpoint, changes the routing table, the
\* token, the host, the scheme or the HTTP client: in every reachable state
\* they are what newEndpoint built.
C18_FrameStep == epFixed' = epFixed /\ categoryURL' = categoryURL

C18_ReadOnlyAfterConstruction ==
  /\ [](EndpointIs(newEndpoint(cfg)))
  /\ [][C18_FrameStep]_vars

\* one goroutine has the response of its datakitPull while another is in
\* the loop of writePoints, past its first body
C18_Witness ==
  \E p \in Ps : \E q \in Ps \ {p} :
    /\ pc[p] = "datakitPull" /\ pend[p].requrl # << >>
    /\ pc[q] = "body" /\ i[q] > 1

\* ------------------------------------------------------------------ C19
\* C19: a body whose request got a response of status class 2 has no Put
\* call, also when reading the body of that response failed.
C19_AcceptedNeverCached ==
  \A p \in Ps : \A n \in 1..Len(log[p]) :
    /\ log[p][n].ev = "req"
    /\ log[p][n].o.kind = "resp"
    /\ log[p][n].o.code \div 100 = 2
    => /\ Events(p, "put", log[p][n].idx) = {}
       /\ PutCount(p, log[p][n].idx) = 0

\* ------------------------------------------------------------------ C20
\* the response was read and its status class is neither 2 nor 4
OtherClass(o) ==
  o.kind = "resp" /\ ~o.readErr /\ o.code \div 100 \notin {2, 4}

\* the Put calls the cache-or-drop decision makes for a body of p
CacheOrDropCount(p) ==
  IF /\ w[p].fc # "nil"
     /\ \/ w[p].cacheAll
        \/ w[p].category \notin {Metric, MetricDeprecated, Object, CustomObject,
                                  DynamicDatawayCategory}
    THEN 1 ELSE 0

C20_OtherClassStep ==
  \A p \in Ps : \A e \in NewEvents(p) :
    e.ev = "req" /\ OtherClass(e.o) => BeyondUsage' = BeyondUsage

\* C20: a response of a status class other than 2 and 4 (3xx, 5xx) leaves
\* the quota flag as it is, makes writePointData return the error of a 5xx
\* and sends the body to the cache-or-drop decision; writePointData returns
\* errWritePoints4XX only for class 4 and nil only for class 2.
C20_DefaultBranch ==
  /\ [](\A p \in Ps : \A n \in 1..Len(log[p]) :
         log[p][n].ev = "req" =>
           \A m \in Events(p, "wpd", log[p][n].idx) :
             /\ OtherClass(log[p][n].o) =>
                  /\ log[p][m].err = "dataway internal error"
                  /\ PutCount(p, log[p][n].idx) = CacheOrDropCount(p)
             /\ log[p][m].err = "errWritePoints4XX" => Status(log[p][n].o, 4)
             /\ log[p][m].err = "nil" => Status(log[p][n].o, 2))
  /\ [][C20_OtherClassStep]_vars

\* a logging body with a queue got a 302 and was handed to Put
C20_Witness ==
  \E p \in Ps : \E n \in 1..Len(log[p]) :
    /\ log[p][n].ev = "req" /\ OtherClass(log[p][n].o)
    /\ log[p][n].o.code \div 100 = 3
    /\ w[p].category = Logging
    /\ PutCount(p, log[p][n].idx) = 1

\* ------------------------------------------------------------------ C21
\* C21: a call whose writer has no durable queue (w.fc is nil) makes no Put
\* call, whatever the category and cacheAll are and however its bodies
\* failed.
C21_NoQueueNoPut ==
  \A p \in Ps :
    w[p].fc = "nil" /\ pc[p] \in {"body", "clear"} =>
      \A n \in 1..Len(Trace(p)) : Trace(p)[n].ev # "put"

\* a logging body of a writer with cacheAll and without a queue got a 5xx
\* or a network error and writeBody is through with it
C21_Witness ==
  \E p \in Ps : \E k \in 1..Len(bodies[p]) :
    /\ w[p].fc = "nil" /\ w[p].cacheAll /\ w[p].category = Logging
    /\ Transient(p, k)

\* ------------------------------------------------------------------ C22
\* the category of the writer of p is in the routing table
Routed(p) == w[p].category \in DOMAIN categoryURL

\* C22: a request for a category of the routing table goes to the URL of
\* the table, also when the writer has a dynamicURL, and updateDTFailInfo
\* is not called for it; a request goes to the dynamicURL, and
\* updateDTFailInfo is called with it, only when the category is not in
\* the table and the dynamicURL parses.
C22_TableFirst ==
  \A p \in Ps : \A n \in 1..Len(log[p]) :
    LET e == log[p][n] IN
    /\ e.ev = "req" /\ Routed(p) =>
         /\ e.url = categoryURL[w[p].category]
         /\ Events(p, "dt", e.idx) = {}
         /\ TraceCount(p, "dt", e.idx) = 0
    /\ e.ev = "req" /\ ~Routed(p) =>
         /\ e.url = w[p].dynamicURL
         /\ ParseRequestURIOk(w[p].dynamicURL)
         /\ Events(p, "wpd", e.idx) # {} =>
              \E m \in Events(p, "dt", e.idx) : log[p][m].url = w[p].dynamicURL
    /\ e.ev = "dt" =>
         /\ ~Routed(p)
         /\ ParseRequestURIOk(w[p].dynamicURL)
         /\ e.url = w[p].dynamicURL

\* a logging body of a writer with a dynamicURL went to the URL of the
\* table, and writePointData is through with it
C22_Witness ==
  \E p \in Ps : \E n \in 1..Len(log[p]) :
    /\ log[p][n].ev = "req"
    /\ w[p].category = Logging /\ w[p].dynamicURL = DynWriteURL
    /\ log[p][n].url = categoryURL[Logging]
    /\ Events(p, "wpd", log[p][n].idx) # {}

\* ------------------------------------------------------------------ C23
\* C23: in the record of a writePoints call everything done for a body
\* comes before everything done for the next: the request for a body is
\* issued after writePointData has returned for the body before and after
\* the Put call of that body, if there is one, so the Put calls of a call
\* are in the order of their bodies.
C23_BodiesInOrder ==
  \A p \in Ps :
    LET tr == Trace(p) IN
    /\ \A n \in 1..(Len(tr) - 1) : tr[n].idx <= tr[n + 1].idx
    /\ \A n \in 1..Len(tr) :
         /\ tr[n].ev = "req" =>
              /\ \A m \in 1..(n - 1) : tr[m].idx < tr[n].idx
              /\ tr[n].idx > 1 =>
                   \E m \in 1..(n - 1) :
                     tr[m].ev = "wpd" /\ tr[m].idx = tr[n].idx - 1
         /\ tr[n].ev = "put" =>
              /\ \A m \in (n + 1)..Len(tr) : tr[m].idx > tr[n].idx
              /\ \E m \in 1..(n - 1) :
                   tr[m].ev = "wpd" /\ tr[m].idx = tr[n].idx

\* the first and the second body of a call were handed to Put, the second
\* after a request of its own
C23_Witness ==
  \E p \in Ps :
    /\ PutCount(p, 1) = 1 /\ PutCount(p, 2) = 1
    /\ Events(p, "req", 2) # {}

\* ------------------------------------------------------------------ C24
\* the outcomes of the body k of p, which writeBody is through with: the
\* gateway accepted it (a 2xx response), it was handed to Put once, it was
\* dropped (a 4xx response, no queue, or a category that is not cached)
Accepted(p, k) ==
  \E n \in Events(p, "req", k) :
    log[p][n].o.kind = "resp" /\ log[p][n].o.code \div 100 = 2

HandedToPut(p, k) == PutCount(p, k) = 1

Dropped(p, k) ==
  /\ PutCount(p, k) = 0
  /\ ~Accepted(p, k)
  /\ \/ \E n \in Events(p, "req", k) : Status(log[p][n].o, 4)
     \/ w[p].fc = "nil"
     \/ ~w[p].cacheAll /\
          w[p].category \in {Metric, MetricDeprecated, Object, CustomObject,
                             DynamicDatawayCategory}

OutcomeCount(p, k) ==
  (IF Accepted(p, k) THEN 1 ELSE 0) + (IF HandedToPut(p, k) THEN 1 ELSE 0)
  + (IF Dropped(p, k) THEN 1 ELSE 0)

\* C24: every body writeBody is through with has exactly one outcome:
\* accepted, dropped, or handed once to Put; none is left without an
\* outcome and none has two.
C24_OneOutcome ==
  \A p \in Ps : \A k \in 1..Len(bodies[p]) :
    Events(p, "wpd", k) # {} => OutcomeCount(p, k) = 1
====
